---- MODULE Spec2Model ----
(***************************************************************************)
(* go-yaml-migration-tool: the AST-based migrator (src/main.go) and the    *)
(* text-substitution migrator (src/unnamed/part_000) run over a project    *)
(* tree.                                                                   *)
(*                                                                         *)
(* Strings are sequences of tokens.  An import path such as                *)
(* gopkg.in/yaml.v3/sub is  <<DepRoot, "3", "/sub">>;  a string literal    *)
(* carries its quote tokens at both ends.  A go directive's version is a   *)
(* sequence of one-character tokens, <<"1", ".", "2", "2">>.               *)
(***************************************************************************)
EXTENDS Integers, Sequences, FiniteSets, TLC

(* ------------------------------------------------------------------ *)
(* bounds                                                              *)
(* ------------------------------------------------------------------ *)

\* number of times the tool is run on the same tree in one behaviour
MaxRuns == 2

(* ------------------------------------------------------------------ *)
(* tokens                                                              *)
(* ------------------------------------------------------------------ *)

DepRoot == "gopkg.in/yaml.v"
NewRoot == "go.yaml.in/yaml/v"
DQ == "dquote"
BQ == "bquote"
SQ == "squote"
Majors == {"2", "3", "4"}
Digits == {"0", "1", "2", "3", "4", "5", "6", "7", "8", "9"}

(* ------------------------------------------------------------------ *)
(* path matcher and quoting helpers (src/main.go)                      *)
(* ------------------------------------------------------------------ *)

\* modPathRe.FindStringSubmatch(raw): ^gopkg\.in/yaml\.v([234])$ .
\* The result is <<whole match, group 1>>, or <<>> (nil) without a match.
modPathRe(raw) ==
    IF Len(raw) = 2 /\ raw[1] = DepRoot /\ raw[2] \in Majors
    THEN <<raw, raw[2]>>
    ELSE <<>>

\* strconv.Unquote(s): [ok, val].  "..." and `...` give the interior; a
\* single-quoted literal is a rune literal, an error for anything longer
\* than one character; anything else is a syntax error.
strconvUnquoteCompat(s) ==
    IF Len(s) >= 2 /\ s[1] = s[Len(s)] /\ s[1] \in {DQ, BQ}
    THEN [ok |-> TRUE, val |-> SubSeq(s, 2, Len(s) - 1)]
    ELSE [ok |-> FALSE, val |-> <<>>]

\* strconvUnquote(s): unquotes when s starts with " or ' and returns s as it
\* is otherwise.
strconvUnquote(s) ==
    IF Len(s) >= 2 /\ (s[1] = DQ \/ s[1] = SQ)
    THEN strconvUnquoteCompat(s)
    ELSE [ok |-> TRUE, val |-> s]

\* strconvQuote(s): s in double quotes.
strconvQuote(s) == <<DQ>> \o s \o <<DQ>>

(* ------------------------------------------------------------------ *)
(* version gate (src/main.go)                                          *)
(* ------------------------------------------------------------------ *)

\* index of the first "." of s, 0 when there is none
RECURSIVE DotAt(_, _)
DotAt(s, i) ==
    IF i > Len(s) THEN 0
    ELSE IF s[i] = "." THEN i
    ELSE DotAt(s, i + 1)

\* strings.SplitN(s, ".", n), n >= 1
RECURSIVE SplitN(_, _)
SplitN(s, n) ==
    LET d == DotAt(s, 1) IN
    IF n <= 1 \/ d = 0 THEN <<s>>
    ELSE <<SubSeq(s, 1, d - 1)>> \o SplitN(SubSeq(s, d + 1, Len(s)), n - 1)

DigitVal(c) ==
    CASE c = "0" -> 0 [] c = "1" -> 1 [] c = "2" -> 2 [] c = "3" -> 3
      [] c = "4" -> 4 [] c = "5" -> 5 [] c = "6" -> 6 [] c = "7" -> 7
      [] c = "8" -> 8 [] c = "9" -> 9

RECURSIVE DecVal(_, _)
DecVal(s, acc) ==
    IF s = <<>> THEN acc ELSE DecVal(Tail(s), 10 * acc + DigitVal(Head(s)))

\* strconv.Atoi(s): [ok, val]
Atoi(s) ==
    IF s # <<>> /\ \A i \in 1..Len(s) : s[i] \in Digits
    THEN [ok |-> TRUE, val |-> DecVal(s, 0)]
    ELSE [ok |-> FALSE, val |-> 0]

\* the component of a split version that compareGo reads: 0 unless the
\* component exists and Atoi accepts it
Component(p, k) ==
    IF Len(p) >= k /\ Atoi(p[k]).ok THEN Atoi(p[k]).val ELSE 0

\* compareGo with only the major components compared
compareGoMajorOnly(a, b) ==
    LET ma == Component(SplitN(a, 3), 1)
        mb == Component(SplitN(b, 3), 1)
    IN  IF ma < mb THEN -1 ELSE IF ma > mb THEN 1 ELSE 0

\* compareGo(a, b): -1, 0 or 1
compareGo(a, b) ==
    LET pa == SplitN(a, 3)
        pb == SplitN(b, 3)
        ma == Component(pa, 1)
        mb == Component(pb, 1)
        miA == Component(pa, 2)
        miB == Component(pb, 2)
    IN  IF ma # mb THEN (IF ma < mb THEN -1 ELSE 1)
        ELSE IF miA # miB THEN (IF miA < miB THEN -1 ELSE 1)
        ELSE 0

\* the minimum the gate asks for, "1.22"
RequiredGo == <<"1", ".", "2", "2">>
\* readGoVersion's answer when go.mod or its go directive is missing, "0.0"
NoGoVersion == <<"0", ".", "0">>

(* ------------------------------------------------------------------ *)
(* files                                                               *)
(*                                                                     *)
(* A file is [ok, canon, items]: ok says whether its parser accepts    *)
(* it, canon whether its layout is the canonical one its formatter     *)
(* prints, items are its import declarations, comments, string         *)
(* literals (Go source) or its go directive and requirements (go.mod). *)
(* An item is [kind, lit, ver]; ver is a requirement's version.        *)
(* ------------------------------------------------------------------ *)

Imp(lit) == [kind |-> "import", lit |-> lit, ver |-> ""]
Cmt(lit) == [kind |-> "comment", lit |-> lit, ver |-> ""]
Str(lit) == [kind |-> "string", lit |-> lit, ver |-> ""]
GoDir(v) == [kind |-> "go", lit |-> v, ver |-> ""]
Req(p, v) == [kind |-> "require", lit |-> p, ver |-> v]

ImportsOf(items) == SelectSeq(items, LAMBDA it : it.kind = "import")
NonImportsOf(items) == SelectSeq(items, LAMBDA it : it.kind # "import")
RequiresOf(items) == SelectSeq(items, LAMBDA it : it.kind = "require")

(* ------------------------------------------------------------------ *)
(* source rewriter (src/main.go, processGoFile)                        *)
(* ------------------------------------------------------------------ *)

\* whether the import loop rewrites this import
ImportMatches(it) ==
    LET raw == strconvUnquote(it.lit) IN
    /\ raw.ok
    /\ modPathRe(raw.val) # <<>>
    /\ raw.val # <<NewRoot, modPathRe(raw.val)[2]>>

\* the token sequence with every  gopkg.in/yaml.v[234]  replaced
ReplaceLit(lit) ==
    [i \in 1..Len(lit) |->
        IF lit[i] = DepRoot /\ i < Len(lit) /\ lit[i + 1] \in Majors
        THEN NewRoot ELSE lit[i]]

\* the import loop replaced by a substitution in every literal of the file
RewriteEveryLiteral(items) ==
    [i \in 1..Len(items) |-> [items[i] EXCEPT !.lit = ReplaceLit(@)]]

\* the import loop: the tree after it
RewriteImports(items) ==
    [i \in 1..Len(items) |->
        IF items[i].kind = "import" /\ ImportMatches(items[i])
        THEN [items[i] EXCEPT !.lit =
                strconvQuote(<<NewRoot,
                               modPathRe(strconvUnquote(items[i].lit).val)[2]>>)]
        ELSE items[i]]

\* byte order of the tokens import paths are made of
TokRank(t) ==
    CASE t = "/sub" -> 1
      [] t \in Digits -> 10 + DigitVal(t)
      [] t = "example.com/" -> 30
      [] t = "fmt" -> 31
      [] t = NewRoot -> 32
      [] t = "golang.org/x/mod" -> 33
      [] t = DepRoot -> 34
      [] OTHER -> 35

\* string order of two paths
RECURSIVE PathLess(_, _)
PathLess(a, b) ==
    IF b = <<>> THEN FALSE
    ELSE IF a = <<>> THEN TRUE
    ELSE IF Head(a) # Head(b) THEN TokRank(Head(a)) < TokRank(Head(b))
    ELSE PathLess(Tail(a), Tail(b))

RECURSIVE InsertImport(_, _)
InsertImport(sorted, it) ==
    IF sorted = <<>> THEN <<it>>
    ELSE IF PathLess(strconvUnquoteCompat(it.lit).val,
                     strconvUnquoteCompat(Head(sorted).lit).val)
         THEN <<it>> \o sorted
         ELSE <<Head(sorted)>> \o InsertImport(Tail(sorted), it)

RECURSIVE SortImports(_)
SortImports(imps) ==
    IF imps = <<>> THEN <<>>
    ELSE InsertImport(SortImports(SubSeq(imps, 1, Len(imps) - 1)), imps[Len(imps)])

\* printer.Config.Fprint: the tree in the printer's layout
printerFprint(items) == [ok |-> TRUE, canon |-> TRUE, items |-> items]

\* format.Source: the printed file with its import block sorted by path
formatSource(f) ==
    [f EXCEPT !.items = SortImports(ImportsOf(@)) \o NonImportsOf(@)]

\* the bytes processGoFile hands to os.WriteFile; fmtOk is whether
\* format.Source accepted the printer's output
Formatted(items, fmtOk) ==
    IF fmtOk THEN formatSource(printerFprint(items)) ELSE printerFprint(items)

(* ------------------------------------------------------------------ *)
(* text substitution (src/unnamed/part_000, process)                   *)
(* ------------------------------------------------------------------ *)

\* re.MatchString(content)
reMatchString(items) ==
    \E i \in 1..Len(items) : ReplaceLit(items[i].lit) # items[i].lit

\* re.ReplaceAllString(content, `go.yaml.in/yaml/v$1`)
reReplaceAllString(items) ==
    [i \in 1..Len(items) |-> [items[i] EXCEPT !.lit = ReplaceLit(@)]]

(* ------------------------------------------------------------------ *)
(* manifest rewriter (src/main.go, processGoMod)                       *)
(* ------------------------------------------------------------------ *)

\* modfile.Parse: the requirement list f.Require and the syntax tree
\* f.Syntax, two structures built from the same text
modfileParse(file) ==
    [Require |-> [i \in 1..Len(RequiresOf(file.items)) |->
                    [Path |-> RequiresOf(file.items)[i].lit,
                     Version |-> RequiresOf(file.items)[i].ver]],
     Syntax |-> file.items]

RequireMatches(r) ==
    /\ modPathRe(r.Path) # <<>>
    /\ r.Path # <<NewRoot, modPathRe(r.Path)[2]>>

\* the require loop: it assigns r.Mod.Path of the matching entries of
\* f.Require and leaves f.Syntax as parsed
RewriteRequires(f) ==
    [Require |-> [i \in 1..Len(f.Require) |->
                    IF RequireMatches(f.Require[i])
                    THEN [Path |-> <<NewRoot, modPathRe(f.Require[i].Path)[2]>>,
                          Version |-> f.Require[i].Version]
                    ELSE f.Require[i]],
     Syntax |-> f.Syntax]

\* modfile.Format(f.Syntax): the syntax tree in go.mod's canonical layout
modfileFormat(syntax) == [ok |-> TRUE, canon |-> TRUE, items |-> syntax]

(* ------------------------------------------------------------------ *)
(* project trees                                                       *)
(*                                                                     *)
(* A tree is the sequence of its entries in the order filepath.WalkDir *)
(* visits them (pre-order, names of a directory in lexical order).     *)
(* An entry is [path, isDir]; path is the sequence of names from the   *)
(* root, <<>> for the root itself.                                     *)
(* ------------------------------------------------------------------ *)

Dir(p) == [path |-> p, isDir |-> TRUE]
File(p) == [path |-> p, isDir |-> FALSE]

TreeFlat ==
    << Dir(<<>>), File(<<"a.go">>), File(<<"go.mod">>) >>

TreeNested ==
    << Dir(<<>>),
       Dir(<<".git">>), File(<<".git", "h.go">>),
       File(<<"go.mod">>),
       Dir(<<"pkg">>), File(<<"pkg", "b.go">>),
       Dir(<<"pkg", "vendor">>), File(<<"pkg", "vendor", "v.go">>),
       File(<<"z.go">>) >>

TreeNoManifest ==
    << Dir(<<>>), File(<<"README.md">>), File(<<"a.go">>),
       Dir(<<"vendor">>), Dir(<<"vendor", "lib">>),
       File(<<"vendor", "lib", "x.go">>) >>

Trees == {TreeFlat, TreeNested, TreeNoManifest}

\* d.Name(): the last name of the path; the root is the directory the walk
\* was started on
Name(e) == IF e.path = <<>> THEN "." ELSE e.path[Len(e.path)]

\* strings.HasSuffix(path, ".go")
HasGoSuffix(e) == Name(e) \in {"a.go", "b.go", "h.go", "v.go", "x.go", "z.go"}

\* filepath.Base(path) == "go.mod"
IsGoModName(e) == Name(e) = "go.mod"

\* the skip test with .git forgotten
IsSkipDirVendorOnly(e) == e.isDir /\ Name(e) = "vendor"

\* d.IsDir() && (d.Name() == "vendor" || d.Name() == ".git")
IsSkipDir(e) == e.isDir /\ (Name(e) = "vendor" \/ Name(e) = ".git")

IsPrefix(p, q) == Len(p) <= Len(q) /\ SubSeq(q, 1, Len(p)) = p

\* filepath.SkipDir: the walk goes on at the first entry after the
\* directory's subtree
RECURSIVE SkipTo(_, _, _)
SkipTo(tr, i, j) ==
    IF j > Len(tr) \/ ~IsPrefix(tr[i].path, tr[j].path) THEN j
    ELSE SkipTo(tr, i, j + 1)

\* filepath.Join(root, "go.mod"): its index in the tree, 0 when the tree
\* has no such file
GoModIdx(tr) ==
    IF \E i \in 1..Len(tr) : tr[i] = File(<<"go.mod">>)
    THEN CHOOSE i \in 1..Len(tr) : tr[i] = File(<<"go.mod">>)
    ELSE 0

(* ------------------------------------------------------------------ *)
(* file contents the trees are filled with                             *)
(* ------------------------------------------------------------------ *)

Dep(d) == <<DepRoot, d>>
New(d) == <<NewRoot, d>>
InDQ(p) == <<DQ>> \o p \o <<DQ>>
InBQ(p) == <<BQ>> \o p \o <<BQ>>

NoFile == [ok |-> FALSE, canon |-> FALSE, items |-> <<>>]

\* a matching import next to mentions in a comment and a string constant
GoMatching ==
    [ok |-> TRUE, canon |-> TRUE,
     items |-> << Imp(InDQ(<<"golang.org/x/mod">>)), Imp(InDQ(Dep("3"))),
                  Cmt(<<"// see ", DepRoot, "3">>), Str(InDQ(Dep("2"))) >>]

\* the deprecated path imported with a raw string literal
GoRawImport ==
    [ok |-> TRUE, canon |-> FALSE, items |-> << Imp(InBQ(Dep("3"))) >>]

\* imports that only contain the deprecated path
GoLookalikes ==
    [ok |-> TRUE, canon |-> TRUE,
     items |-> << Imp(InDQ(<<"example.com/", DepRoot, "3">>)),
                  Imp(InDQ(<<"fmt">>)),
                  Imp(InDQ(<<DepRoot, "3", "/sub">>)),
                  Imp(InDQ(Dep("5"))) >>]

\* the deprecated path in a comment and a string constant only
GoMentionsOnly ==
    [ok |-> TRUE, canon |-> FALSE,
     items |-> << Imp(InDQ(<<"fmt">>)), Cmt(<<"// was ", DepRoot, "2">>),
                  Str(InBQ(Dep("4"))) >>]

GoMigrated ==
    [ok |-> TRUE, canon |-> TRUE, items |-> << Imp(InDQ(New("3"))) >>]

\* a file the Go parser rejects
GoBroken ==
    [ok |-> FALSE, canon |-> FALSE, items |-> << Imp(InDQ(Dep("3"))) >>]

GoAllMajors ==
    [ok |-> TRUE, canon |-> FALSE,
     items |-> << Imp(InDQ(Dep("2"))), Imp(InDQ(Dep("4"))) >>]

GoFiles ==
    {GoMatching, GoRawImport, GoLookalikes, GoMentionsOnly, GoMigrated,
     GoBroken, GoAllMajors}

Readme ==
    [ok |-> TRUE, canon |-> FALSE, items |-> << Str(<<"uses ", DepRoot, "3">>) >>]

GoVersions ==
    { <<"1", ".", "2", "1">>, <<"1", ".", "9">>, <<"1", ".", "2", "2">>,
      <<"1", ".", "1", "0", "0">>, <<"2", ".", "0">>,
      <<"1", ".", "2", "2", ".", "1">>, <<"1", ".", "x">>, <<"1">>,
      <<"0", ".", "9", "9">> }

ReqsTypical ==
    << Req(Dep("3"), "v3.0.1"), Req(<<"example.com/", DepRoot, "3">>, "v1.2.0") >>

ModFiles ==
    {[ok |-> TRUE, canon |-> FALSE, items |-> <<GoDir(v)>> \o ReqsTypical] :
        v \in GoVersions}
    \cup
    {[ok |-> TRUE, canon |-> TRUE, items |-> <<GoDir(RequiredGo)>> \o r] :
        r \in { << Req(Dep("2"), "v2.4.0"), Req(Dep("4"), "v4.0.0") >>,
                << Req(New("3"), "v3.0.1") >>,
                << Req(<<DepRoot, "3", "/sub">>, "v0.1.0"),
                   Req(Dep("5"), "v5.0.0") >> }}
    \cup
    { \* no go directive
      [ok |-> TRUE, canon |-> TRUE, items |-> ReqsTypical],
      \* a go.mod the modfile parser rejects
      [ok |-> FALSE, canon |-> FALSE,
       items |-> <<GoDir(RequiredGo)>> \o ReqsTypical] }

\* what entry i of tree tr may hold
Contents(tr, i) ==
    IF tr[i].isDir THEN {NoFile}
    ELSE IF \E k \in 1..(Len(tr[i].path) - 1) : tr[i].path[k] \in {"vendor", ".git"}
         THEN {GoMatching}
    ELSE IF HasGoSuffix(tr[i]) THEN GoFiles
    ELSE IF IsGoModName(tr[i]) THEN ModFiles
    ELSE {Readme}

RECURSIVE Stores(_, _)
Stores(tr, n) ==
    IF n = 0 THEN {<<>>}
    ELSE {Append(s, c) : s \in Stores(tr, n - 1), c \in Contents(tr, n)}

(* ------------------------------------------------------------------ *)
(* go mod tidy (the go tool, run by runGoModTidy)                      *)
(* ------------------------------------------------------------------ *)

\* the module an import path belongs to, <<>> for the standard library
ModuleOf(p) ==
    IF Len(p) >= 2 /\ p[1] \in {DepRoot, NewRoot} THEN <<p[1], p[2]>>
    ELSE IF p = <<"fmt">> THEN <<>>
    ELSE p

\* whether the packages of this entry belong to the main module
InMainModule(e) ==
    /\ ~e.isDir
    /\ HasGoSuffix(e)
    /\ \A k \in 1..(Len(e.path) - 1) : e.path[k] \notin {"vendor", ".git"}

\* the modules the main module's sources import
NeededModules(tr, st) ==
    UNION { { ModuleOf(strconvUnquoteCompat(st[i].items[k].lit).val) :
                k \in {j \in 1..Len(st[i].items) : st[i].items[j].kind = "import"} } :
            i \in {j \in 1..Len(tr) : InMainModule(tr[j]) /\ st[j].ok} }
    \ {<<>>}

RECURSIVE SortedPaths(_)
SortedPaths(S) ==
    IF S = {} THEN <<>>
    ELSE LET m == CHOOSE x \in S : \A y \in S \ {x} : PathLess(x, y)
         IN  <<m>> \o SortedPaths(S \ {m})

\* go.mod after a successful go mod tidy: the requirements no source
\* imports are dropped, the missing ones are added
TidiedMod(tr, st) ==
    LET old == st[GoModIdx(tr)].items
        need == NeededModules(tr, st)
        kept == SelectSeq(old, LAMBDA it : it.kind # "require" \/ it.lit \in need)
        have == {kept[k].lit : k \in {j \in 1..Len(kept) : kept[j].kind = "require"}}
        add == SortedPaths(need \ have)
    IN  [ok |-> TRUE, canon |-> TRUE,
         items |-> kept \o [k \in 1..Len(add) |-> Req(add[k], "resolved")]]

\* whether go mod tidy can succeed at all
TidyCanSucceed(tr, st) == GoModIdx(tr) # 0 /\ st[GoModIdx(tr)].ok

(* ------------------------------------------------------------------ *)
(* state                                                               *)
(* ------------------------------------------------------------------ *)

VARIABLES
    variant,        \* "ast": src/main.go, "text": src/unnamed/part_000
    dryRun,         \* the -dry-run flag of the current run
    tree,           \* the project tree under -path
    store,          \* the contents of the tree's entries, by index
    store0,         \* store when the current run started
    pc,             \* "start", "walk", "gomod", "tidy", "exit0", "exit1"
    idx,            \* the entry the walk is at
    err,            \* what made the run fail, "none" so far
    goVer,          \* main's goVer, <<>> before readGoVersion has run
    run,            \* 1 for the first run of the tool, 2 for the second
    prevClean,      \* the run before this one was no dry run and exited 0
    totalFiles, matchedFiles, updatedFiles, changedFiles,
    scanned,        \* the entries this run printed [SCAN] for, in order
    writes,         \* the entries this run called os.WriteFile on, in order
    updatedLog,     \* the entries this run printed [UPDATED] for
    modReports,     \* the "[GO.MOD] require:" lines this run printed
    modUpdated,     \* this run printed "[GO.MOD] updated"
    tidyRuns,       \* the times this run started go mod tidy
    tidyErr,        \* go mod tidy failed in this run
    phases          \* the phases this run has entered

vars ==
    << variant, dryRun, tree, store, store0, pc, idx, err, goVer, run,
       prevClean, totalFiles, matchedFiles, updatedFiles, changedFiles, scanned, writes,
       updatedLog, modReports, modUpdated, tidyRuns, tidyErr, phases >>

counters == << totalFiles, matchedFiles, updatedFiles, changedFiles >>
logs == << scanned, writes, updatedLog, modReports, modUpdated, tidyRuns, tidyErr >>
world == << variant, tree, run, prevClean, store0, dryRun >>
setup == << world, goVer >>

\* where main starts: the version gate in the AST tool, the walk in the
\* text tool
FirstPc(v) == IF v = "ast" THEN "start" ELSE "walk"

FreshRun ==
    /\ idx = 1
    /\ err = "none"
    /\ goVer = <<>>
    /\ totalFiles = 0 /\ matchedFiles = 0 /\ updatedFiles = 0 /\ changedFiles = 0
    /\ scanned = <<>> /\ writes = <<>> /\ updatedLog = {}
    /\ modReports = 0 /\ modUpdated = FALSE
    /\ tidyRuns = 0 /\ tidyErr = FALSE
    /\ phases = {}

Init ==
    /\ variant \in {"ast", "text"}
    /\ dryRun \in BOOLEAN
    /\ tree \in Trees
    /\ store \in Stores(tree, Len(tree))
    /\ store0 = store
    /\ pc = FirstPc(variant)
    /\ run = 1
    /\ prevClean = FALSE
    /\ FreshRun

(* ------------------------------------------------------------------ *)
(* the tools' functions                                                *)
(* ------------------------------------------------------------------ *)

\* what a failed os.WriteFile leaves of a file it had opened and truncated
Truncated == [ok |-> FALSE, canon |-> FALSE, items |-> <<>>]

\* os.WriteFile: done, refused before the file was opened, or failed after
\* the file was truncated
WriteOutcomes == {"ok", "denied", "partial"}

AfterWrite(old, new, wr) ==
    IF wr = "ok" THEN new ELSE IF wr = "partial" THEN Truncated ELSE old

\* atomic.AddUint64(&totalFiles, 1) left out
ScanCountForgotten(n) == n

\* atomic.AddUint64(&totalFiles, 1)
ScanCount(n) == n + 1

\* processGoFile's dry-run test
FileDryRun == dryRun

\* processGoMod's dry-run test left out
ModDryRunIgnored == FALSE

\* processGoMod's dry-run test
ModDryRun == dryRun

\* main's test before go mod tidy
RunsTidy == ~dryRun

\* the text tool's dry-run test, *dryRun == "true"
TextDryRun == dryRun

\* readGoVersion(root); readOk is whether os.ReadFile succeeded
readGoVersion(tr, st, readOk) ==
    LET g == GoModIdx(tr)
        dirs == IF g = 0 THEN <<>>
                ELSE SelectSeq(st[g].items, LAMBDA it : it.kind = "go")
    IN  IF g = 0 \/ ~readOk \/ dirs = <<>> THEN NoGoVersion ELSE dirs[1].lit

\* processGoFile(path) on a file holding `file`: [changed, err, wrote, file],
\* file being what the path holds afterwards.  readOk: the parser could
\* read the file; fmtOk: format.Source accepted the printed tree; wr: what
\* os.WriteFile did.
processGoFile(file, readOk, fmtOk, wr) ==
    LET changed == \E i \in 1..Len(file.items) :
                      file.items[i].kind = "import" /\ ImportMatches(file.items[i])
        out == Formatted(RewriteImports(file.items), fmtOk)
    IN  IF ~readOk \/ ~file.ok
        THEN [changed |-> FALSE, err |-> "parse", wrote |-> FALSE, file |-> file]
        ELSE IF ~changed
        THEN [changed |-> FALSE, err |-> "none", wrote |-> FALSE, file |-> file]
        ELSE IF FileDryRun
        THEN [changed |-> TRUE, err |-> "none", wrote |-> FALSE, file |-> file]
        ELSE [changed |-> wr = "ok",
              err |-> IF wr = "ok" THEN "none" ELSE "write",
              wrote |-> TRUE,
              file |-> AfterWrite(file, out, wr)]

\* the body of process's callback on a .go or go.mod file:
\* [matched, updated, err, wrote, file]
processText(file, readOk, wr) ==
    IF ~readOk
    THEN [matched |-> FALSE, updated |-> FALSE, err |-> "read",
          wrote |-> FALSE, file |-> file]
    ELSE IF ~reMatchString(file.items)
    THEN [matched |-> FALSE, updated |-> FALSE, err |-> "none",
          wrote |-> FALSE, file |-> file]
    ELSE IF TextDryRun
    THEN [matched |-> TRUE, updated |-> FALSE, err |-> "none",
          wrote |-> FALSE, file |-> file]
    ELSE [matched |-> TRUE, updated |-> wr = "ok",
          err |-> IF wr = "ok" THEN "none" ELSE "write",
          wrote |-> TRUE,
          file |-> AfterWrite(file,
                              [file EXCEPT !.items = reReplaceAllString(@)], wr)]

\* processGoMod(modPath): [reports, updated, err, wrote, file]
processGoMod(file, readOk, wr) ==
    LET parsed == modfileParse(file)
        f == RewriteRequires(parsed)
        n == Cardinality({i \in 1..Len(parsed.Require) :
                            RequireMatches(parsed.Require[i])})
    IN  IF ~readOk
        THEN [reports |-> 0, updated |-> FALSE, err |-> "modread",
              wrote |-> FALSE, file |-> file]
        ELSE IF ~file.ok
        THEN [reports |-> 0, updated |-> FALSE, err |-> "modparse",
              wrote |-> FALSE, file |-> file]
        ELSE IF n = 0
        THEN [reports |-> 0, updated |-> FALSE, err |-> "none",
              wrote |-> FALSE, file |-> file]
        ELSE IF ModDryRun
        THEN [reports |-> n, updated |-> FALSE, err |-> "none",
              wrote |-> FALSE, file |-> file]
        ELSE [reports |-> n, updated |-> wr = "ok",
              err |-> IF wr = "ok" THEN "none" ELSE "modwrite",
              wrote |-> TRUE,
              file |-> AfterWrite(file, modfileFormat(f.Syntax), wr)]

(* ------------------------------------------------------------------ *)
(* actions                                                             *)
(* ------------------------------------------------------------------ *)

\* the walk's error is printed and the run goes on with the next phase
WalkFailedGoesOn(kind) ==
    /\ pc' = (IF variant = "ast" THEN "gomod" ELSE "tidy")
    /\ err' = kind

\* WalkDir returns the callback's error and main exits with status 1
WalkFailed(kind) ==
    /\ pc' = "exit1"
    /\ err' = kind

\* main's version gate
Gate ==
    /\ pc = "start"
    /\ \E readOk \in BOOLEAN :
         /\ goVer' = readGoVersion(tree, store, readOk)
         /\ IF compareGo(goVer', RequiredGo) < 0
            THEN pc' = "exit1" /\ err' = "gate"
            ELSE pc' = "walk" /\ err' = err
    /\ phases' = phases \cup {"gate"}
    /\ UNCHANGED << world, store, idx, counters, logs >>

\* the callback on a directory, and WalkDir's reading of it
VisitDir ==
    /\ pc = "walk" /\ idx <= Len(tree)
    /\ tree[idx].isDir
    /\ IF IsSkipDir(tree[idx])
       THEN idx' = SkipTo(tree, idx, idx + 1) /\ UNCHANGED << pc, err >>
       ELSE \E readDirOk \in BOOLEAN :
              IF readDirOk
              THEN idx' = idx + 1 /\ UNCHANGED << pc, err >>
              ELSE idx' = idx /\ WalkFailed("access")
    /\ phases' = phases \cup {"walk"}
    /\ UNCHANGED << setup, store, counters, logs >>

\* the callback on a file it does not handle
VisitOther ==
    /\ pc = "walk" /\ idx <= Len(tree)
    /\ ~tree[idx].isDir
    /\ ~HasGoSuffix(tree[idx])
    /\ variant = "text" => ~IsGoModName(tree[idx])
    /\ idx' = idx + 1
    /\ phases' = phases \cup {"walk"}
    /\ UNCHANGED << setup, store, pc, err, counters, logs >>

\* visit on a .go file (src/main.go)
VisitGoFile ==
    /\ pc = "walk" /\ idx <= Len(tree)
    /\ variant = "ast"
    /\ ~tree[idx].isDir
    /\ HasGoSuffix(tree[idx])
    /\ \E readOk \in BOOLEAN, fmtOk \in BOOLEAN, wr \in WriteOutcomes :
         LET r == processGoFile(store[idx], readOk, fmtOk, wr) IN
         /\ store' = [store EXCEPT ![idx] = r.file]
         /\ writes' = IF r.wrote THEN Append(writes, idx) ELSE writes
         /\ IF r.err # "none"
            THEN /\ WalkFailed(r.err)
                 /\ idx' = idx
                 /\ UNCHANGED << changedFiles, updatedLog >>
            ELSE /\ UNCHANGED << pc, err >>
                 /\ idx' = idx + 1
                 /\ changedFiles' = IF r.changed THEN changedFiles + 1 ELSE changedFiles
                 /\ updatedLog' = IF r.changed THEN updatedLog \cup {idx} ELSE updatedLog
    /\ totalFiles' = ScanCount(totalFiles)
    /\ scanned' = Append(scanned, idx)
    /\ phases' = phases \cup {"walk"}
    /\ UNCHANGED << setup, matchedFiles, updatedFiles, modReports, modUpdated,
                    tidyRuns, tidyErr >>

\* process's callback on a .go or go.mod file (src/unnamed/part_000)
VisitTextFile ==
    /\ pc = "walk" /\ idx <= Len(tree)
    /\ variant = "text"
    /\ ~tree[idx].isDir
    /\ HasGoSuffix(tree[idx]) \/ IsGoModName(tree[idx])
    /\ \E readOk \in BOOLEAN, wr \in WriteOutcomes :
         LET r == processText(store[idx], readOk, wr) IN
         /\ store' = [store EXCEPT ![idx] = r.file]
         /\ writes' = IF r.wrote THEN Append(writes, idx) ELSE writes
         /\ matchedFiles' = IF r.matched THEN matchedFiles + 1 ELSE matchedFiles
         /\ IF r.err # "none"
            THEN /\ WalkFailed(r.err)
                 /\ idx' = idx
                 /\ UNCHANGED << updatedFiles, updatedLog >>
            ELSE /\ UNCHANGED << pc, err >>
                 /\ idx' = idx + 1
                 /\ updatedFiles' = IF r.updated THEN updatedFiles + 1 ELSE updatedFiles
                 /\ updatedLog' = IF r.updated THEN updatedLog \cup {idx} ELSE updatedLog
    /\ totalFiles' = ScanCount(totalFiles)
    /\ scanned' = Append(scanned, idx)
    /\ phases' = phases \cup {"walk"}
    /\ UNCHANGED << setup, changedFiles, modReports, modUpdated, tidyRuns, tidyErr >>

\* filepath.WalkDir returns nil
WalkReturns ==
    /\ pc = "walk" /\ idx > Len(tree)
    /\ pc' = (IF variant = "ast" THEN "gomod" ELSE "tidy")
    /\ phases' = phases \cup {"walk"}
    /\ UNCHANGED << setup, store, idx, err, counters, logs >>

\* main's go.mod step: fileExists(goModPath), then processGoMod
ProcessGoMod ==
    /\ pc = "gomod"
    /\ \E readOk \in BOOLEAN, wr \in WriteOutcomes :
         IF GoModIdx(tree) = 0
         THEN /\ pc' = "tidy"
              /\ UNCHANGED << store, err, writes, modReports, modUpdated >>
         ELSE LET g == GoModIdx(tree)
                  r == processGoMod(store[g], readOk, wr)
              IN  /\ store' = [store EXCEPT ![g] = r.file]
                  /\ writes' = IF r.wrote THEN Append(writes, g) ELSE writes
                  /\ modReports' = r.reports
                  /\ modUpdated' = r.updated
                  /\ err' = r.err
                  /\ pc' = IF r.err # "none" THEN "exit1" ELSE "tidy"
    /\ phases' = phases \cup {"gomod"}
    /\ UNCHANGED << setup, idx, counters, scanned, updatedLog, tidyRuns, tidyErr >>

\* main's last step: go mod tidy unless this is a dry run, then the summary
Tidy ==
    /\ pc = "tidy"
    /\ IF RunsTidy
       THEN \E ok \in BOOLEAN :
              /\ ok => TidyCanSucceed(tree, store)
              /\ tidyRuns' = tidyRuns + 1
              /\ tidyErr' = ~ok
              /\ store' = IF ok
                          THEN [store EXCEPT ![GoModIdx(tree)] = TidiedMod(tree, store)]
                          ELSE store
       ELSE UNCHANGED << tidyRuns, tidyErr, store >>
    /\ pc' = "exit0"
    /\ phases' = phases \cup {"tidy"}
    /\ UNCHANGED << setup, idx, err, counters, scanned, writes, updatedLog,
                    modReports, modUpdated >>

\* the tool is started again on the tree the last run left
Restart ==
    /\ pc \in {"exit0", "exit1"}
    /\ run < MaxRuns
    /\ run' = run + 1
    /\ prevClean' = (pc = "exit0" /\ ~dryRun)
    /\ dryRun' \in BOOLEAN
    /\ store0' = store
    /\ pc' = FirstPc(variant)
    /\ idx' = 1
    /\ err' = "none"
    /\ goVer' = <<>>
    /\ totalFiles' = 0 /\ matchedFiles' = 0 /\ updatedFiles' = 0 /\ changedFiles' = 0
    /\ scanned' = <<>> /\ writes' = <<>> /\ updatedLog' = {}
    /\ modReports' = 0 /\ modUpdated' = FALSE
    /\ tidyRuns' = 0 /\ tidyErr' = FALSE
    /\ phases' = {}
    /\ UNCHANGED << variant, tree, store >>

Next ==
    \/ Gate
    \/ VisitDir
    \/ VisitOther
    \/ VisitGoFile
    \/ VisitTextFile
    \/ WalkReturns
    \/ ProcessGoMod
    \/ Tidy
    \/ Restart

Spec == Init /\ [][Next]_vars

(* ------------------------------------------------------------------ *)
(* vocabulary of the properties                                        *)
(* ------------------------------------------------------------------ *)

Deprecated == {Dep(d) : d \in Majors}

\* the path a deprecated path is to become; any other path stays
Migrated(p) == IF p \in Deprecated THEN New(p[2]) ELSE p

\* the path a Go string literal denotes, whichever quotes it is written in
PathOf(lit) ==
    IF Len(lit) >= 2 /\ lit[1] \in {DQ, BQ} /\ lit[Len(lit)] = lit[1]
    THEN SubSeq(lit, 2, Len(lit) - 1)
    ELSE lit

ImportPaths(file) ==
    {PathOf(file.items[k].lit) :
        k \in {j \in 1..Len(file.items) : file.items[j].kind = "import"}}

\* an entry below a directory named vendor or .git, at any depth
UnderExcluded(e) ==
    \E k \in 1..(Len(e.path) - 1) : e.path[k] \in {"vendor", ".git"}

\* the deprecated path occurs somewhere in the literal
Mentions(lit) == \E k \in 1..Len(lit) : lit[k] = DepRoot

\* the run has handled entry i and did not fail on it
Processed(i) ==
    /\ \E k \in 1..Len(scanned) : scanned[k] = i
    /\ ~(err # "none" /\ idx = i)

\* major and minor of the go directives the trees are filled with, as
\* numbers (a component that is no number counts as 0)
Numeric(v) ==
    CASE v = <<"1", ".", "2", "1">> -> <<1, 21>>
      [] v = <<"1", ".", "9">> -> <<1, 9>>
      [] v = <<"1", ".", "2", "2">> -> <<1, 22>>
      [] v = <<"1", ".", "1", "0", "0">> -> <<1, 100>>
      [] v = <<"2", ".", "0">> -> <<2, 0>>
      [] v = <<"1", ".", "2", "2", ".", "1">> -> <<1, 22>>
      [] v = <<"1", ".", "x">> -> <<1, 0>>
      [] v = <<"1">> -> <<1, 0>>
      [] v = <<"0", ".", "9", "9">> -> <<0, 99>>
      [] v = <<"0", ".", "0">> -> <<0, 0>>

AtLeast122(v) ==
    Numeric(v)[1] > 1 \/ (Numeric(v)[1] = 1 /\ Numeric(v)[2] >= 22)

\* the go directive of the manifest the run started on, "0.0" without one
Declared ==
    LET g == GoModIdx(tree)
        d == IF g = 0 THEN <<>>
             ELSE SelectSeq(store0[g].items, LAMBDA it : it.kind = "go")
    IN  IF d = <<>> THEN NoGoVersion ELSE d[1].lit

WalkErrors == {"access", "parse", "read", "write"}
ManifestErrors == {"modread", "modparse", "modwrite"}

(* ------------------------------------------------------------------ *)
(* properties                                                          *)
(* ------------------------------------------------------------------ *)

\* C1: after processGoFile has handled a source file in a normal run, the
\* file's import paths are those it had before with gopkg.in/yaml.v2, v3
\* and v4 turned into go.yaml.in/yaml/v2, v3 and v4, and every other path
\* as it was.
C1_ImportsRewrittenExactly ==
    (variant = "ast" /\ ~dryRun) =>
        \A i \in 1..Len(tree) :
            Processed(i) =>
                ImportPaths(store[i]) = {Migrated(p) : p \in ImportPaths(store0[i])}

\* C2: once a normal run's processGoMod is through with a manifest that
\* required a deprecated module, the manifest on disk requires
\* go.yaml.in/yaml/v<digit> at the same version in its place, every other
\* requirement is as it was, and the manifest was reported updated.
C2_ManifestRewritten ==
    (variant = "ast" /\ ~dryRun /\ pc = "tidy" /\ modReports > 0) =>
        LET g == GoModIdx(tree)
            was == RequiresOf(store0[g].items)
            now == RequiresOf(store[g].items)
        IN  /\ modUpdated
            /\ Len(now) = Len(was)
            /\ \A k \in 1..Len(was) :
                 now[k] = Req(Migrated(was[k].lit), was[k].ver)

\* C3: a dry run writes nothing: no os.WriteFile call, every file as it was
\* when the run started, go mod tidy never started.
C3_DryRunWritesNothing ==
    dryRun => (writes = <<>> /\ store = store0 /\ tidyRuns = 0)

C3_Witness ==
    /\ dryRun /\ variant = "ast" /\ pc = "exit0"
    /\ changedFiles >= 1 /\ modReports >= 1

\* C4: a normal run that follows a completed normal run finds nothing to
\* do: it counts no file as matched, changed or updated, reports no
\* requirement as rewritten and writes no file.
C4_SecondRunFindsNothing ==
    (run >= 2 /\ prevClean /\ ~dryRun) =>
        /\ matchedFiles = 0 /\ changedFiles = 0 /\ updatedFiles = 0
        /\ modReports = 0 /\ ~modUpdated
        /\ writes = <<>>

\* C5: the AST tool's run gets past the gate exactly when the go directive
\* it read (0.0 when there is none to read) is numerically at least 1.22;
\* a run the gate stops exits 1 having written nothing, rewritten no
\* manifest and started no go mod tidy.
C5_VersionGate ==
    (variant = "ast" /\ "gate" \in phases) =>
        /\ goVer \in {Declared, NoGoVersion}
        /\ (err = "gate") <=> ~AtLeast122(goVer)
        /\ err = "gate" =>
             /\ pc = "exit1"
             /\ phases = {"gate"}
             /\ writes = <<>> /\ store = store0
             /\ modReports = 0 /\ ~modUpdated /\ tidyRuns = 0
        /\ err # "gate" => pc # "start"

C5_Witness ==
    /\ variant = "ast" /\ pc = "exit1" /\ err = "gate"
    /\ goVer = <<"1", ".", "9">>
    /\ \E i \in 1..Len(tree) : store[i] = GoMatching /\ ~UnderExcluded(tree[i])

\* C6: the AST tool never writes a source file whose only occurrences of
\* the deprecated path are in comments and string constants, and reports
\* it unchanged; in a file it does rewrite, the comments and string
\* constants are those the file had.
C6_OnlyImportsRewritten ==
    variant = "ast" =>
        \A i \in 1..Len(tree) :
            Processed(i) =>
                /\ (\A k \in 1..Len(store0[i].items) :
                        store0[i].items[k].kind = "import"
                            => ~Mentions(store0[i].items[k].lit))
                   => /\ store[i] = store0[i]
                      /\ i \notin updatedLog
                      /\ \A k \in 1..Len(writes) : writes[k] # i
                /\ NonImportsOf(store[i].items) = NonImportsOf(store0[i].items)

C6_Witness ==
    /\ variant = "ast" /\ ~dryRun /\ pc = "exit0"
    /\ \E i, j \in 1..Len(tree) :
         /\ store0[i] = GoMentionsOnly /\ Processed(i) /\ store[i] = GoMentionsOnly
         /\ store0[j] = GoMatching /\ j \in updatedLog /\ store[j] # store0[j]

\* C7: a run that fails in the walk (directory access, parse, read, write)
\* has exited 1 without scanning or writing any entry after the failing
\* one and without entering the manifest step or go mod tidy; a run that
\* fails in the manifest step has exited 1 without go mod tidy; what the
\* run wrote before it failed is still there; a failing go mod tidy leaves
\* the run at exit status 0.
C7_ErrorsStopTheRun ==
    /\ pc = "exit1" <=> err # "none"
    /\ err \in WalkErrors =>
         /\ phases \subseteq {"gate", "walk"}
         /\ tidyRuns = 0 /\ modReports = 0 /\ ~modUpdated
         /\ \A k \in 1..Len(scanned) : scanned[k] <= idx
         /\ \A k \in 1..Len(writes) : writes[k] <= idx
         /\ \A i \in (idx + 1)..Len(tree) : store[i] = store0[i]
    /\ err \in ManifestErrors =>
         /\ "tidy" \notin phases
         /\ tidyRuns = 0
    /\ (err # "none" /\ ~dryRun) =>
         \A i \in updatedLog : store[i] # Truncated /\ store[i] # store0[i]
    /\ tidyErr => (pc = "exit0" /\ err = "none")

C7_Witness ==
    /\ pc = "exit1" /\ err = "write"
    /\ updatedLog # {}
    /\ idx < Len(tree)

\* C8: at every step of a run updatedFiles <= matchedFiles <= totalFiles and
\* changedFiles <= totalFiles, and within a run no counter decreases.
C8_CountersOrdered ==
    [][ /\ updatedFiles' <= matchedFiles'
        /\ matchedFiles' <= totalFiles'
        /\ changedFiles' <= totalFiles'
        /\ run' = run =>
             /\ totalFiles' >= totalFiles
             /\ matchedFiles' >= matchedFiles
             /\ updatedFiles' >= updatedFiles
             /\ changedFiles' >= changedFiles ]_vars

C8_Witness ==
    /\ variant = "text" /\ dryRun /\ pc = "exit0"
    /\ matchedFiles >= 2 /\ updatedFiles = 0 /\ totalFiles > matchedFiles

\* C9: no entry below a directory named vendor or .git is ever scanned,
\* written or changed, no entry is scanned twice, and once the walk has
\* returned every .go file outside those directories has been scanned
\* exactly once.
C9_ExcludedDirsNeverScanned ==
    /\ \A k \in 1..Len(scanned) : ~UnderExcluded(tree[scanned[k]])
    /\ \A k \in 1..Len(writes) : ~UnderExcluded(tree[writes[k]])
    /\ \A i \in 1..Len(tree) : UnderExcluded(tree[i]) => store[i] = store0[i]
    /\ \A k, l \in 1..Len(scanned) : scanned[k] = scanned[l] => k = l
    /\ Len(scanned) = totalFiles
    /\ (pc \in {"gomod", "tidy", "exit0"} \/ err \in ManifestErrors) =>
         \A i \in 1..Len(tree) :
             (~tree[i].isDir /\ HasGoSuffix(tree[i]) /\ ~UnderExcluded(tree[i]))
                 => \E k \in 1..Len(scanned) : scanned[k] = i

C9_Witness ==
    /\ tree = TreeNested /\ pc = "exit0" /\ ~dryRun
    /\ totalFiles >= 2
    /\ \E i \in 1..Len(tree) : UnderExcluded(tree[i]) /\ store[i] = GoMatching

\* C10: processGoFile marks a file changed and rewrites the import when the
\* deprecated path is imported with a double-quoted literal and when it is
\* imported with a raw back-quoted literal alike.
C10_AnyQuotingRewritten ==
    variant = "ast" =>
        \A i \in 1..Len(tree) :
            (/\ Processed(i)
             /\ \E k \in 1..Len(store0[i].items), d \in Majors :
                  /\ store0[i].items[k].kind = "import"
                  /\ store0[i].items[k].lit \in {InDQ(Dep(d)), InBQ(Dep(d))})
            => i \in updatedLog

====
